---------------------------- MODULE Spec2Model ----------------------------
(***************************************************************************)
(* Per-thread heap attachment of the Hoard allocator (source/unixtls.cpp). *)
(*                                                                         *)
(* The model follows one process: the main thread (thread 0) and up to     *)
(* NumWorkers threads created through the interposed pthread_create.  The  *)
(* storage strategy (USE_THREAD_KEYWORD defined or not) is a build-time    *)
(* choice, so it is chosen in Init and never changes.  Every thread has a  *)
(* program counter; one action is one step of the code between two points  *)
(* where another thread can interleave.                                    *)
(*                                                                         *)
(* log[t] is the history of what thread t has done so far (a history       *)
(* variable: the code keeps no such record); the properties are stated    *)
(* over it.                                                                *)
(*                                                                         *)
(* Spec is the process as built with thread-safe function statics, its    *)
(* threads ending by return or pthread_exit.  SpecCancel adds threads      *)
(* that are ended from outside.  SpecStatics is the USE_THREAD_KEYWORD     *)
(* build without thread-safe function statics: the initialiser of          *)
(* real_pthread_exit is taken step by step.                                *)
(***************************************************************************)
EXTENDS Integers, Sequences, FiniteSets, TLC

\* ---------------------------------------------------------------- bounds
NumWorkers == 2          \* threads that may be created besides main
MaxOps == 1              \* mallocs a thread body may make (each may be freed)
MaxArg == 1              \* argument values are 1..MaxArg (0 is NULL)

Main == 0
Workers == 1..NumWorkers
Threads == 0..NumWorkers
NULL == 0
NoThread == Main - 1
NoHeap == 0
PerThread == 2 * MaxOps + 2    \* getCustomHeap calls one thread can make
Insts == 1..((NumWorkers + 1) * PerThread)
HeapIds == 1..(NumWorkers + 1)
Funcs == {"ident", "succ"}     \* entry functions a caller may pass
Args == 1..MaxArg              \* non-NULL argument and exit values
\* the <<start_routine, arg>> pairs a caller may pass
Calls == {<<fn, a>> \in Funcs \X Args : fn = "ident" \/ a = MaxArg}

VARIABLES
  strategy,          \* "inline" (USE_THREAD_KEYWORD) or "keyed" (pthread key)
  pc,                \* pc[t]: where thread t is
  key_once,          \* pthread_once_t key_once: "init" or "done"
  keyState,          \* theHeapKey: "none", "ok", "invalid" or "foreign"
  initializedTSD,    \* static bool initializedTSD of initTSD
  keyCreations,      \* history: how many times make_heap_key has run
  theTLAB,           \* inline: __thread theTLAB, per thread (NULL or instance)
  specific,          \* keyed: the value stored under theHeapKey, per thread
  heapMem,           \* storage obtained from getMainHoardHeap()->malloc
  constructedBy,     \* constructedBy[i]: thread that constructed cache i
  inUse,             \* Global Heap Pool: heap identities currently leased
  tidMap,            \* Global Heap Pool: heap identity bound to each thread
  pkg,               \* pkg[c]: launch package made for child c
  pkgVal,            \* pkgVal[c]: <<start_routine, arg>> stored in the package
  f, arg, result,    \* locals of startMeUp, per thread
  heap,              \* local heap of exitRoutine, per thread
  dp,                \* argument p of deleteThatHeap, per thread
  retTo,             \* who called exitRoutine: "startMeUp" or "pthread_exit"
  value_ptr,         \* argument of pthread_exit, per thread
  threadResult,      \* value the thread ended with (what pthread_join yields)
  creating,          \* locals of pthread_create, per calling thread
  passed,            \* history: <<start_routine, arg>> given for child c
  createResult,      \* last value pthread_create returned to each caller
  anyThreadCreated,  \* extern volatile bool anyThreadCreated
  tInit,             \* static t of pthread_create has been initialised
  firstCaller,       \* history: the thread that made the first creation call
  real_pthread_create, real_pthread_exit,   \* "null" or the address "libc"
  exitGuard,         \* real_pthread_exit's initialiser is marked as done
  ops, held,         \* body: mallocs made so far, blocks currently held
  cached,            \* Local Cache: blocks kept in cache i (freed, not flushed)
  highWater,         \* history: most created threads alive at the same time
  returned,          \* history: instances getCustomHeap has returned to t
  log                \* history: events of thread t, in order

poolVars == <<inUse, tidMap>>
keyVars == <<key_once, keyState, initializedTSD, keyCreations>>
tlabVars == <<theTLAB, specific, heapMem, constructedBy, returned>>
pkgVars == <<pkg, pkgVal>>
smuVars == <<f, arg, result>>
exitVars == <<heap, dp, retTo, value_ptr, threadResult>>
createVars == <<creating, passed, createResult, anyThreadCreated, tInit,
                firstCaller, highWater, real_pthread_create>>
bodyVars == <<ops, held, cached>>
exitStatic == <<real_pthread_exit, exitGuard>>

vars == <<strategy, pc, key_once, keyState, initializedTSD, keyCreations,
          theTLAB, specific, heapMem, constructedBy, inUse, tidMap, pkg, pkgVal, f, arg,
          result, heap, dp, retTo, value_ptr, threadResult, creating,
          passed, createResult, anyThreadCreated, tInit, firstCaller,
          highWater, real_pthread_create, real_pthread_exit, exitGuard, ops,
          held,
          cached, returned, log>>

\* ------------------------------------------------------- history helpers
RECURSIVE CountIn(_, _)
CountIn(s, E) ==
  IF s = <<>> THEN 0
  ELSE (IF Head(s) \in E THEN 1 ELSE 0) + CountIn(Tail(s), E)

Has(s, E) == \E i \in 1..Len(s) : s[i] \in E

\* position of the first event of E in s (0 when there is none)
First(s, E) ==
  IF Has(s, E) THEN CHOOSE i \in 1..Len(s) :
                      s[i] \in E /\ \A j \in 1..(i - 1) : s[j] \notin E
  ELSE 0

\* position of the last event of E in s (0 when there is none)
Last(s, E) ==
  IF Has(s, E) THEN CHOOSE i \in 1..Len(s) :
                      s[i] \in E /\ \A j \in (i + 1)..Len(s) : s[j] \notin E
  ELSE 0

LeaseEv == {"lease"}
ReleaseEv == {"release", "d_release"}
ClearEv == {"clear", "d_clear"}
CacheOpEv == {"malloc", "free", "clear", "d_clear"}
ConstructEv == {"construct"}

Note(t, evs) == log' = [log EXCEPT ![t] = @ \o evs]

\* ------------------------------------------------------------------ Init
Init ==
  /\ strategy \in {"inline", "keyed"}
  /\ pc = [t \in Threads |-> IF t = Main THEN "load" ELSE "unstarted"]
  /\ key_once = "init"
  /\ keyState = "none"
  /\ initializedTSD = FALSE
  /\ keyCreations = 0
  /\ theTLAB = [t \in Threads |-> NULL]
  /\ specific = [t \in Threads |-> NULL]
  /\ heapMem = {}
  /\ constructedBy = [i \in Insts |-> NoThread]
  /\ inUse = {}
  /\ tidMap = [t \in Threads |-> NoHeap]
  /\ pkg = [t \in Threads |-> "none"]
  /\ pkgVal = [t \in Threads |-> <<"ident", NULL>>]
  /\ f = [t \in Threads |-> "ident"]
  /\ arg = [t \in Threads |-> NULL]
  /\ result = [t \in Threads |-> NULL]
  /\ heap = [t \in Threads |-> NULL]
  /\ dp = [t \in Threads |-> NULL]
  /\ retTo = [t \in Threads |-> "none"]
  /\ value_ptr = [t \in Threads |-> NULL]
  /\ threadResult = [t \in Threads |-> NULL]
  /\ creating = [t \in Threads |-> <<Main, "ident", NULL>>]
  /\ passed = [t \in Threads |-> <<"ident", NULL>>]
  /\ createResult = [t \in Threads |-> 0]
  /\ anyThreadCreated = FALSE
  /\ tInit = FALSE
  /\ firstCaller = NoThread
  /\ real_pthread_create = "null"
  /\ real_pthread_exit = "null"
  /\ exitGuard = FALSE
  /\ ops = [t \in Threads |-> 0]
  /\ held = [t \in Threads |-> 0]
  /\ cached = [i \in Insts |-> 0]
  /\ highWater = 0
  /\ returned = [t \in Threads |-> {}]
  /\ log = [t \in Threads |-> <<>>]

\* ------------------------------------------- keyed strategy: registration
\* make_heap_key: pthread_key_create either yields a key with deleteThatHeap
\* as its destructor ("ok") or fails; the failure is ignored, so theHeapKey
\* keeps its zero value, which is either no key at all ("invalid":
\* pthread_setspecific fails, pthread_getspecific yields NULL) or a key some
\* other component owns ("foreign": values are kept per thread, but
\* deleteThatHeap is not its destructor).
make_heap_key ==
  /\ \E r \in {"ok", "invalid", "foreign"} : keyState' = r
  /\ keyCreations' = keyCreations + 1

\* pthread_once(&key_once, make_heap_key)
pthread_once ==
  IF key_once = "init"
  THEN make_heap_key /\ key_once' = "done"
  ELSE UNCHANGED <<key_once, keyState, keyCreations>>

\* (variant: every call registers the key again, with no once-guard)
initTSD_unguarded ==
  make_heap_key /\ key_once' = "done" /\ initializedTSD' = TRUE

initTSD ==
  IF ~initializedTSD
  THEN pthread_once /\ initializedTSD' = TRUE
  ELSE UNCHANGED keyVars

\* pthread_getspecific(theHeapKey) of thread t when the key is in state ks
getspecific(ks, t) == IF ks \in {"ok", "foreign"} THEN specific[t] ELSE NULL

\* --------------------------------------------------------- getCustomHeap
\* (variant: the slot is one per process, not one per thread)
SlotValue_shared(ks, t) ==
  IF strategy = "inline" THEN theTLAB[Main] ELSE getspecific(ks, Main)

\* the thread's slot as getCustomHeap reads it
SlotValue(ks, t) ==
  IF strategy = "inline" THEN theTLAB[t] ELSE getspecific(ks, t)

\* the storage initializeCustomHeap constructs into: the thread's own
\* tlabBuffer (inline) or a block from the pool's malloc (keyed)
\* (blocks are labelled by the thread that asks and how many it has had)
NewInst(t) ==
  IF strategy = "inline" THEN t * PerThread + 1
  ELSE t * PerThread + CountIn(log[t], ConstructEv) + 1

\* what getCustomHeap returns to thread t
GetResult(ks, t) ==
  IF SlotValue(ks, t) = NULL THEN NewInst(t) ELSE SlotValue(ks, t)

\* initializeCustomHeap: construct a Local Cache and record it in the slot
initializeCustomHeap(ks, t) ==
  /\ NewInst(t) \in Insts
  /\ constructedBy' = [constructedBy EXCEPT ![NewInst(t)] = t]
  /\ IF strategy = "inline"
     THEN /\ theTLAB' = [theTLAB EXCEPT ![t] = NewInst(t)]
          /\ UNCHANGED <<specific, heapMem>>
     ELSE /\ heapMem' = heapMem \cup {NewInst(t)}
          /\ specific' = IF ks \in {"ok", "foreign"}
                         THEN [specific EXCEPT ![t] = NewInst(t)]
                         ELSE specific
          /\ UNCHANGED theTLAB

\* getCustomHeap called by thread t; the events it adds to the history are
\* GetEvents(t)
getCustomHeap(t) ==
  /\ IF strategy = "keyed" THEN initTSD ELSE UNCHANGED keyVars
  /\ IF SlotValue(keyState', t) = NULL
     THEN initializeCustomHeap(keyState', t)
     ELSE UNCHANGED <<theTLAB, specific, heapMem, constructedBy>>
  /\ returned' = [returned EXCEPT ![t] = @ \cup {GetResult(keyState', t)}]

GetEvents(t) ==
  IF SlotValue(keyState', t) = NULL THEN <<"construct">> ELSE <<>>

\* ------------------------------------------------------ Global Heap Pool
\* findUnusedHeap: bind the calling thread to a heap identity not in use
findUnusedHeap(t) ==
  /\ HeapIds \ inUse # {}
  /\ LET h == CHOOSE x \in HeapIds \ inUse :
                \A y \in HeapIds \ inUse : x <= y
     IN /\ inUse' = inUse \cup {h}
        /\ tidMap' = [tidMap EXCEPT ![t] = h]

\* releaseHeap: the identity bound to the calling thread is no longer in use
releaseHeap(t) ==
  /\ inUse' = inUse \ {tidMap[t]}
  /\ UNCHANGED tidMap

\* ----------------------------------------------------------- Local Cache
\* malloc on cache i: a cached block is handed out again if there is one,
\* otherwise the block comes from the pool
cache_malloc(i) ==
  cached' = [cached EXCEPT ![i] = IF @ > 0 THEN @ - 1 ELSE @]

\* free on cache i: the block is kept in the cache
cache_free(i) == cached' = [cached EXCEPT ![i] = @ + 1]

\* clear() on cache i: all cached blocks go back to the pool
cache_clear(i) ==
  cached' = [j \in Insts |-> IF j = i THEN 0 ELSE cached[j]]

\* ------------------------------------------------------------- load time
\* library load on the main thread: the constructor initTSD (keyed only)
Load ==
  /\ pc[Main] = "load"
  /\ IF strategy = "keyed" THEN initTSD ELSE UNCHANGED keyVars
  /\ pc' = [pc EXCEPT ![Main] = "body"]
  /\ UNCHANGED <<strategy, tlabVars, poolVars, pkgVars, smuVars, exitVars,
                 createVars, exitStatic, bodyVars, log>>

\* -------------------------------------------------------- pthread_create
\* the platform's pthread_create fails with this error code
EAGAIN == 11

\* the thread handle the platform hands out next (handles are labels: the
\* unstarted threads are taken in order)
NextChild == CHOOSE c \in Workers :
               pc[c] = "unstarted" /\ \A d \in Workers :
                                        pc[d] = "unstarted" => c <= d

\* (variant: pthread_create without the static t = getCustomHeap())
static_t_absent(t) ==
  /\ tInit' = TRUE
  /\ UNCHANGED <<keyVars, tlabVars, log>>

\* static volatile TheCustomHeapType * t = getCustomHeap();  (the initialiser
\* runs on the first call only)
static_t(t) ==
  /\ IF ~tInit
     THEN getCustomHeap(t) /\ Note(t, GetEvents(t))
     ELSE UNCHANGED <<keyVars, tlabVars, log>>
  /\ tInit' = TRUE

\* (variant: pthread_create leaves anyThreadCreated as it is)
set_anyThreadCreated_absent == UNCHANGED anyThreadCreated

\* anyThreadCreated = true;
set_anyThreadCreated == anyThreadCreated' = TRUE

\* thread t calls pthread_create(&c, attr, fn, a).  The two function statics
\* are initialised on the first call (t = getCustomHeap() and the dlsym of the
\* real pthread_create); then anyThreadCreated = true and
\* args = new pair(start_routine, arg)
pthread_create_enter(t) ==
  /\ pc[t] = "body"
  /\ \E c \in Workers : pc[c] = "unstarted"
  /\ \E c \in Calls :
       /\ creating' = [creating EXCEPT ![t] = <<NextChild, c[1], c[2]>>]
       /\ passed' = [passed EXCEPT ![NextChild] = c]
       /\ pkgVal' = [pkgVal EXCEPT ![NextChild] = c]
  /\ pc' = [pc EXCEPT ![t] = "pc_call", ![NextChild] = "pending"]
  /\ static_t(t)
  /\ firstCaller' = IF firstCaller = NoThread THEN t ELSE firstCaller
  /\ real_pthread_create' = "libc"
  /\ set_anyThreadCreated
  /\ pkg' = [pkg EXCEPT ![NextChild] = "live"]
  /\ UNCHANGED <<strategy, poolVars, smuVars, exitVars, createResult,
                 highWater, exitStatic, bodyVars>>

\* created threads that have been started and are not gone yet
Live == {c \in Workers : pc[c] \notin {"unstarted", "pending", "failed",
                                       "terminated"}}

\* (variant: pthread_create returns 0 whatever the real implementation gave)
pthread_create_call_zero(t) ==
  /\ pc[t] = "pc_call"
  /\ \E ok \in BOOLEAN :
       /\ pc' = [pc EXCEPT ![t] = "body",
                           ![creating[t][1]] =
                              IF ok THEN "smu_get" ELSE "failed"]
       /\ createResult' = [createResult EXCEPT ![t] = 0]
  /\ UNCHANGED <<strategy, keyVars, tlabVars, poolVars, pkgVars, smuVars,
                 exitVars, creating, passed, anyThreadCreated, tInit,
                 firstCaller, real_pthread_create, exitStatic,
                 bodyVars, log>>
  /\ highWater' = IF Cardinality(Live') > highWater
                  THEN Cardinality(Live') ELSE highWater

\* result = (*real_pthread_create)(thread, attr, startMeUp, args);
\* return result
pthread_create_call(t) ==
  /\ pc[t] = "pc_call"
  /\ \E ok \in BOOLEAN :
       /\ pc' = [pc EXCEPT ![t] = "body",
                           ![creating[t][1]] =
                              IF ok THEN "smu_get" ELSE "failed"]
       /\ createResult' = [createResult EXCEPT ![t] =
                              IF ok THEN 0 ELSE EAGAIN]
  /\ UNCHANGED <<strategy, keyVars, tlabVars, poolVars, pkgVars, smuVars,
                 exitVars, creating, passed, anyThreadCreated, tInit,
                 firstCaller, real_pthread_create, exitStatic,
                 bodyVars, log>>
  /\ highWater' = IF Cardinality(Live') > highWater
                  THEN Cardinality(Live') ELSE highWater

\* -------------------------------------------------------------- startMeUp
\* (variant: startMeUp without its getCustomHeap() call)
startMeUp_getCustomHeap_skipped(t) ==
  /\ pc[t] = "smu_get"
  /\ pc' = [pc EXCEPT ![t] = "smu_lease"]
  /\ UNCHANGED <<strategy, keyVars, tlabVars, poolVars, pkgVars, smuVars,
                 exitVars, createVars, exitStatic, bodyVars, log>>

\* getCustomHeap();
startMeUp_getCustomHeap(t) ==
  /\ pc[t] = "smu_get"
  /\ getCustomHeap(t)
  /\ Note(t, GetEvents(t))
  /\ pc' = [pc EXCEPT ![t] = "smu_lease"]
  /\ UNCHANGED <<strategy, poolVars, pkgVars, smuVars, exitVars, createVars,
                 exitStatic, bodyVars>>

\* getMainHoardHeap()->findUnusedHeap(); f = z->first; arg = z->second;
\* then the real entry function is entered: (*f)(arg)
startMeUp_findUnusedHeap(t) ==
  /\ pc[t] = "smu_lease"
  /\ findUnusedHeap(t)
  /\ f' = [f EXCEPT ![t] = pkgVal[t][1]]
  /\ arg' = [arg EXCEPT ![t] = pkgVal[t][2]]
  /\ Note(t, <<"lease", "run">>)
  /\ pc' = [pc EXCEPT ![t] = "body"]
  /\ UNCHANGED <<strategy, keyVars, tlabVars, pkgVars, result, exitVars,
                 createVars, exitStatic, bodyVars>>

\* ------------------------------------------------------- the thread body
\* what entry function fn returns for argument a
EntryFn(fn, a) == IF fn = "ident" THEN a ELSE a + 1

\* the body allocates through its Local Cache: getCustomHeap()->malloc(sz)
body_malloc(t) ==
  /\ pc[t] = "body"
  /\ ops[t] < MaxOps
  /\ getCustomHeap(t)
  /\ Note(t, GetEvents(t) \o <<"malloc">>)
  /\ ops' = [ops EXCEPT ![t] = @ + 1]
  /\ held' = [held EXCEPT ![t] = @ + 1]
  /\ cache_malloc(GetResult(keyState', t))
  /\ UNCHANGED <<strategy, pc, poolVars, pkgVars, smuVars, exitVars,
                 createVars, exitStatic>>

\* the body frees a block through its Local Cache: getCustomHeap()->free(ptr)
body_free(t) ==
  /\ pc[t] = "body"
  /\ held[t] > 0
  /\ getCustomHeap(t)
  /\ Note(t, GetEvents(t) \o <<"free">>)
  /\ held' = [held EXCEPT ![t] = @ - 1]
  /\ cache_free(GetResult(keyState', t))
  /\ UNCHANGED <<strategy, pc, poolVars, pkgVars, smuVars, exitVars,
                 createVars, exitStatic, ops>>

\* --------------------------------------------------------- exitRoutine
\* (variant: exitRoutine takes the slot's value as it is, without
\* getCustomHeap())
exitRoutine_clear_slot(t) ==
  /\ UNCHANGED <<keyVars, tlabVars>>
  /\ heap' = [heap EXCEPT ![t] = SlotValue(keyState, t)]
  /\ cache_clear(SlotValue(keyState, t))
  /\ Note(t, <<IF retTo'[t] = "startMeUp" THEN "ret" ELSE "exit", "clear">>)
  /\ pc' = [pc EXCEPT ![t] = "er_release"]

\* TheCustomHeapType * heap = getCustomHeap(); heap->clear();
exitRoutine_clear(t) ==
  /\ getCustomHeap(t)
  /\ heap' = [heap EXCEPT ![t] = GetResult(keyState', t)]
  /\ cache_clear(GetResult(keyState', t))
  /\ Note(t, <<IF retTo'[t] = "startMeUp" THEN "ret" ELSE "exit">>
             \o GetEvents(t) \o <<"clear">>)
  /\ pc' = [pc EXCEPT ![t] = "er_release"]

\* result = (*f)(arg) returns; exitRoutine() is called and clears the cache
body_return(t) ==
  /\ t \in Workers
  /\ pc[t] = "body"
  /\ result' = [result EXCEPT ![t] = EntryFn(f[t], arg[t])]
  /\ retTo' = [retTo EXCEPT ![t] = "startMeUp"]
  /\ exitRoutine_clear(t)
  /\ UNCHANGED <<strategy, poolVars, pkgVars, f, arg, dp, value_ptr,
                 threadResult, createVars, exitStatic, ops, held>>

\* (variant: pthread_exit forwards without calling exitRoutine())
pthread_exit_enter_noteardown(t) ==
  /\ pc[t] = "body"
  /\ \E v \in Args : value_ptr' = [value_ptr EXCEPT ![t] = v]
  /\ real_pthread_exit' = "libc"
  /\ exitGuard' = TRUE
  /\ retTo' = [retTo EXCEPT ![t] = "pthread_exit"]
  /\ Note(t, <<"exit">>)
  /\ pc' = [pc EXCEPT ![t] = "pe_fwd"]
  /\ UNCHANGED <<strategy, keyVars, tlabVars, poolVars, pkgVars, smuVars,
                 heap, dp, threadResult, createVars, bodyVars>>

\* the body calls pthread_exit(v): the static real_pthread_exit is resolved,
\* exitRoutine() is called and clears the cache
pthread_exit_enter(t) ==
  /\ pc[t] = "body"
  /\ \E v \in Args : value_ptr' = [value_ptr EXCEPT ![t] = v]
  /\ real_pthread_exit' = "libc"
  /\ exitGuard' = TRUE
  /\ retTo' = [retTo EXCEPT ![t] = "pthread_exit"]
  /\ exitRoutine_clear(t)
  /\ UNCHANGED <<strategy, poolVars, pkgVars, smuVars, dp, threadResult,
                 createVars, ops, held>>

\* (variant: exitRoutine without its releaseHeap() call)
exitRoutine_releaseHeap_skipped(t) ==
  /\ pc[t] = "er_release"
  /\ pc' = [pc EXCEPT ![t] =
              IF retTo[t] = "startMeUp" THEN "smu_ret" ELSE "pe_fwd"]
  /\ UNCHANGED <<strategy, keyVars, tlabVars, poolVars, pkgVars, smuVars,
                 exitVars, createVars, exitStatic, bodyVars, log>>

\* getMainHoardHeap()->releaseHeap(); then back to the caller
exitRoutine_releaseHeap(t) ==
  /\ pc[t] = "er_release"
  /\ releaseHeap(t)
  /\ Note(t, <<"release">>)
  /\ pc' = [pc EXCEPT ![t] =
              IF retTo[t] = "startMeUp" THEN "smu_ret" ELSE "pe_fwd"]
  /\ UNCHANGED <<strategy, keyVars, tlabVars, pkgVars, smuVars, exitVars,
                 createVars, exitStatic, bodyVars>>

\* ------------------------------------------------------ thread termination
\* the runtime ends thread t: with a key whose destructor is deleteThatHeap
\* and a non-NULL value, the value is reset and the destructor is called with
\* it; otherwise the thread is gone (and, inline, its thread-local buffer
\* with it)
thread_finish(t) ==
  /\ IF strategy = "keyed" /\ keyState = "ok" /\ specific[t] # NULL
     THEN /\ dp' = [dp EXCEPT ![t] = specific[t]]
          /\ specific' = [specific EXCEPT ![t] = NULL]
          /\ pc' = [pc EXCEPT ![t] = "dth_clear"]
          /\ UNCHANGED constructedBy
     ELSE /\ pc' = [pc EXCEPT ![t] = "terminated"]
          /\ constructedBy' =
               IF strategy = "inline"
               THEN [constructedBy EXCEPT ![t * PerThread + 1] = NoThread]
               ELSE constructedBy
          /\ UNCHANGED <<dp, specific>>
  /\ UNCHANGED <<keyVars, theTLAB, heapMem, returned>>

\* (variant: startMeUp returns the initial value of result, NULL, instead
\* of what the entry function gave)
startMeUp_return_null(t) ==
  /\ pc[t] = "smu_ret"
  /\ threadResult' = [threadResult EXCEPT ![t] = NULL]
  /\ Note(t, <<"return">>)
  /\ thread_finish(t)
  /\ UNCHANGED <<strategy, poolVars, pkgVars, smuVars, heap, retTo,
                 value_ptr, createVars, exitStatic, bodyVars>>

\* return result;  (startMeUp returns: the thread ends with result)
startMeUp_return(t) ==
  /\ pc[t] = "smu_ret"
  /\ threadResult' = [threadResult EXCEPT ![t] = result[t]]
  /\ Note(t, <<"return">>)
  /\ thread_finish(t)
  /\ UNCHANGED <<strategy, poolVars, pkgVars, smuVars, heap, retTo,
                 value_ptr, createVars, exitStatic, bodyVars>>

\* (*real_pthread_exit)(value_ptr): the thread ends with value_ptr; a call
\* through a pointer that is still null ends the whole process
pthread_exit_forward(t) ==
  /\ pc[t] = "pe_fwd"
  /\ IF real_pthread_exit = "null"
     THEN /\ Note(t, <<"forward_null">>)
          /\ pc' = [u \in Threads |-> "crashed"]
          /\ UNCHANGED <<threadResult, dp, keyVars, tlabVars>>
     ELSE /\ threadResult' = [threadResult EXCEPT ![t] = value_ptr[t]]
          /\ Note(t, <<"forward">>)
          /\ thread_finish(t)
  /\ UNCHANGED <<strategy, poolVars, pkgVars, smuVars, heap, retTo,
                 value_ptr, createVars, exitStatic, bodyVars>>

\* deleteThatHeap(p): heap->clear(); getMainHoardHeap()->free(heap);
deleteThatHeap_clear(t) ==
  /\ pc[t] = "dth_clear"
  /\ heapMem' = heapMem \ {dp[t]}
  /\ constructedBy' = [constructedBy EXCEPT ![dp[t]] = NoThread]
  /\ cache_clear(dp[t])
  /\ Note(t, <<"d_clear", "d_free">>)
  /\ pc' = [pc EXCEPT ![t] = "dth_release"]
  /\ UNCHANGED <<strategy, keyVars, theTLAB, specific, returned,
                 poolVars, pkgVars, smuVars, exitVars, createVars,
                 exitStatic, ops, held>>

\* deleteThatHeap(p): getMainHoardHeap()->releaseHeap(); the destructor
\* returns and the thread is gone
deleteThatHeap_releaseHeap(t) ==
  /\ pc[t] = "dth_release"
  /\ releaseHeap(t)
  /\ Note(t, <<"d_release">>)
  /\ pc' = [pc EXCEPT ![t] = "terminated"]
  /\ UNCHANGED <<strategy, keyVars, tlabVars, pkgVars, smuVars, exitVars,
                 createVars, exitStatic, bodyVars>>

\* ------------------------------------------------------------------ Next
Next ==
  \/ Load
  \/ \E t \in Threads : pthread_create_enter(t)
  \/ \E t \in Threads : pthread_create_call(t)
  \/ \E t \in Threads : startMeUp_getCustomHeap(t)
  \/ \E t \in Threads : startMeUp_findUnusedHeap(t)
  \/ \E t \in Threads : body_malloc(t)
  \/ \E t \in Threads : body_free(t)
  \/ \E t \in Threads : body_return(t)
  \/ \E t \in Threads : pthread_exit_enter(t)
  \/ \E t \in Threads : exitRoutine_releaseHeap(t)
  \/ \E t \in Threads : startMeUp_return(t)
  \/ \E t \in Threads : pthread_exit_forward(t)
  \/ \E t \in Threads : deleteThatHeap_clear(t)
  \/ \E t \in Threads : deleteThatHeap_releaseHeap(t)

Spec == Init /\ [][Next]_vars

\* ------------------------- function statics without thread-safe initialisers
\* In a build whose compiler does not make the initialisation of function
\* statics thread-safe, "static real_pthread_exit = dlsym(...)" is a test of
\* a guard, the dlsym call, a store to the pointer and a store to the guard,
\* with no lock or barrier: threads may run it at the same time, and another
\* thread may see the two stores in either order.

\* pthread_exit(v) is entered: the guard is read; if it is set the
\* initialiser is skipped and exitRoutine() is called
pthread_exit_static_check(t) ==
  /\ pc[t] = "body"
  /\ \E v \in Args : value_ptr' = [value_ptr EXCEPT ![t] = v]
  /\ retTo' = [retTo EXCEPT ![t] = "pthread_exit"]
  /\ IF exitGuard
     THEN exitRoutine_clear(t)
     ELSE /\ pc' = [pc EXCEPT ![t] = "pe_resolve"]
          /\ UNCHANGED <<keyVars, tlabVars, heap, cached, log>>
  /\ UNCHANGED <<strategy, poolVars, pkgVars, smuVars, dp, threadResult,
                 createVars, exitStatic, ops, held>>

\* dlsym(RTLD_NEXT, fname) has returned; the first of the two stores (to the
\* pointer, to the guard) becomes visible
pthread_exit_static_store1(t) ==
  /\ pc[t] = "pe_resolve"
  /\ \/ /\ real_pthread_exit' = "libc"
        /\ pc' = [pc EXCEPT ![t] = "pe_store_guard"]
        /\ UNCHANGED exitGuard
     \/ /\ exitGuard' = TRUE
        /\ pc' = [pc EXCEPT ![t] = "pe_store_ptr"]
        /\ UNCHANGED real_pthread_exit
  /\ UNCHANGED <<strategy, keyVars, tlabVars, poolVars, pkgVars, smuVars,
                 exitVars, createVars, bodyVars, log>>

\* the other store becomes visible; then exitRoutine() is called
pthread_exit_static_store2(t) ==
  /\ pc[t] \in {"pe_store_guard", "pe_store_ptr"}
  /\ real_pthread_exit' = "libc"
  /\ exitGuard' = TRUE
  /\ UNCHANGED retTo
  /\ exitRoutine_clear(t)
  /\ UNCHANGED <<strategy, poolVars, pkgVars, smuVars, dp, value_ptr,
                 threadResult, createVars, ops, held>>

NextStatics ==
  \/ Load
  \/ \E t \in Threads : pthread_create_enter(t)
  \/ \E t \in Threads : pthread_create_call(t)
  \/ \E t \in Threads : startMeUp_getCustomHeap(t)
  \/ \E t \in Threads : startMeUp_findUnusedHeap(t)
  \/ \E t \in Threads : body_malloc(t)
  \/ \E t \in Threads : body_free(t)
  \/ \E t \in Threads : body_return(t)
  \/ \E t \in Threads : pthread_exit_static_check(t)
  \/ \E t \in Threads : pthread_exit_static_store1(t)
  \/ \E t \in Threads : pthread_exit_static_store2(t)
  \/ \E t \in Threads : exitRoutine_releaseHeap(t)
  \/ \E t \in Threads : startMeUp_return(t)
  \/ \E t \in Threads : pthread_exit_forward(t)

\* the build with USE_THREAD_KEYWORD (gcc from 3.3, SunPro): compilers that
\* need not make function statics thread-safe
InitStatics == Init /\ strategy = "inline"

\* the process of that build, without thread-safe function statics
SpecStatics == InitStatics /\ [][NextStatics]_vars

\* ------------------------------------------- termination not intercepted
\* the value a cancelled thread ends with ((void *) -1)
PTHREAD_CANCELED == NULL - 1

\* thread t is ended from outside while its entry function runs (it is
\* cancelled at a cancellation point): neither startMeUp's exitRoutine() call
\* nor pthread_exit is reached; the runtime ends the thread
thread_cancel(t) ==
  /\ t \in Workers
  /\ pc[t] = "body"
  /\ threadResult' = [threadResult EXCEPT ![t] = PTHREAD_CANCELED]
  /\ Note(t, <<"cancel">>)
  /\ thread_finish(t)
  /\ UNCHANGED <<strategy, poolVars, pkgVars, smuVars, heap, retTo,
                 value_ptr, createVars, exitStatic, bodyVars>>

NextCancel ==
  \/ Next
  \/ \E t \in Threads : thread_cancel(t)

\* the same process where threads may also be cancelled
SpecCancel == Init /\ [][NextCancel]_vars

\* ------------------------------------------------------------ properties
Terminated(t) == pc[t] = "terminated"
Leases(t) == CountIn(log[t], LeaseEv)
Releases(t) == CountIn(log[t], ReleaseEv)
Clears(t) == CountIn(log[t], ClearEv)
Constructs(t) == CountIn(log[t], ConstructEv)
BodyEv == {"run", "malloc", "free"}
\* the events of s after its first "exit", constructions left out
RECURSIVE Without(_, _)
Without(s, E) ==
  IF s = <<>> THEN <<>>
  ELSE (IF Head(s) \in E THEN <<>> ELSE <<Head(s)>>) \o Without(Tail(s), E)
AfterExit(s) == Without(SubSeq(s, First(s, {"exit"}) + 1, Len(s)), ConstructEv)
IsPrefix(a, b) == Len(a) <= Len(b) /\ a = SubSeq(b, 1, Len(a))
\* threads that have leased a heap, not released one and not ended
Holders == {t \in Workers : Leases(t) >= 1 /\ Releases(t) = 0 /\ ~Terminated(t)}

\* C1: every thread started through the wrapper leases a heap (findUnusedHeap)
\* exactly once and releases it (releaseHeap) exactly once over its lifetime,
\* in both strategies and on both ways of ending.
C1_LeaseReleaseOnce ==
  \A t \in Workers :
    /\ Leases(t) <= 1 /\ Releases(t) <= 1
    /\ Terminated(t) => Leases(t) = 1 /\ Releases(t) = 1

\* C2: once a thread that leased a heap has called releaseHeap, it performs
\* no further malloc, free or clear on its Local Cache.
C2_NoCacheOpAfterRelease ==
  \A t \in Workers :
    Has(log[t], ReleaseEv) =>
      Last(log[t], CacheOpEv) < First(log[t], ReleaseEv)

\* C3: all calls of getCustomHeap() made from one thread return the same
\* Local Cache instance, and only the first call constructs one.
C3_SameInstance ==
  \A t \in Threads : Cardinality(returned[t]) <= 1 /\ Constructs(t) <= 1

\* C4: two distinct threads are never handed the same Local Cache instance,
\* and the slots of two threads never hold the same instance.
C4_DistinctCaches ==
  \A t1, t2 \in Threads :
    t1 # t2 =>
      /\ returned[t1] \cap returned[t2] = {}
      /\ SlotValue(keyState, t1) # NULL =>
           SlotValue(keyState, t1) # SlotValue(keyState, t2)

\* C4 witness: two threads are running their bodies, each with a Local Cache
\* handed to it.
C4_Witness ==
  \E t1, t2 \in Threads :
    /\ t1 # t2
    /\ pc[t1] = "body" /\ pc[t2] = "body"
    /\ returned[t1] # {} /\ returned[t2] # {}
    /\ Has(log[t1], {"malloc"}) /\ Has(log[t2], {"malloc"})

\* C5: a live thread has at most one constructed Local Cache, and a thread
\* that was created, allocated once and returned has constructed its cache
\* exactly once and flushed it exactly once.
C5_OneConstructOneTeardown ==
  /\ \A t \in Threads :
       ~Terminated(t) =>
         Cardinality({i \in Insts : constructedBy[i] = t}) <= 1
  /\ \A t \in Workers :
       Terminated(t) /\ Has(log[t], {"return"}) /\ ops[t] = 1 =>
         Constructs(t) = 1 /\ Clears(t) = 1

\* C6: a thread whose entry function returns ends with the value that the
\* entry function handed to pthread_create yields for the argument handed to
\* pthread_create, and the teardown (clear, release) precedes that return.
C6_ResultPreserved ==
  \A t \in Workers :
    Has(log[t], {"return"}) =>
      /\ threadResult[t] = EntryFn(passed[t][1], passed[t][2])
      /\ First(log[t], {"clear"}) # 0
      /\ First(log[t], {"clear"}) < First(log[t], {"return"})
      /\ First(log[t], {"release"}) # 0
      /\ First(log[t], {"release"}) < First(log[t], {"return"})

\* C6 witness: a thread started with the entry function succ has returned
\* and ended with succ's value.
C6_Witness ==
  \E t \in Workers :
    /\ Terminated(t)
    /\ Has(log[t], {"return"})
    /\ passed[t] = <<"succ", MaxArg>>
    /\ threadResult[t] = MaxArg + 1

C8_ExitOrder ==
  \A t \in Threads :
    Has(log[t], {"exit"}) =>
      /\ IsPrefix(AfterExit(log[t]),
                  <<"clear", "release", "forward",
                    "d_clear", "d_free", "d_release">>)
      /\ pc[t] \in {"er_release", "pe_fwd", "dth_clear", "dth_release",
                    "terminated"}

\* C8 witness: a thread has forwarded to the real pthread_exit.
C8_Witness ==
  \E t \in Workers :
    Has(log[t], {"forward"}) /\ Has(log[t], {"malloc"}) /\ Terminated(t)

C10_PackageFreed ==
  \A t \in Workers :
    (Has(log[t], {"run"}) \/ Terminated(t)) => pkg[t] # "live"

\* C12: keyed strategy: when the one-time registration has failed
\* (pthread_key_create returned non-zero in make_heap_key), no getCustomHeap()
\* call proceeds to look up, construct or store a Local Cache.
C12_FatalOnKeyFailure ==
  keyState \in {"invalid", "foreign"} =>
    \A t \in Threads :
      /\ returned[t] = {}
      /\ Constructs(t) = 0
      /\ specific[t] = NULL

\* threads that exist or have existed besides main
Started == {c \in Workers : pc[c] \notin {"unstarted", "pending", "failed"}}

\* C13: anyThreadCreated is true when pthread_create is about to invoke the
\* real implementation, and it is true in every state where a thread other
\* than main exists or has existed (so it is never reset).
C13_FlagBeforeThreads ==
  /\ (\E t \in Threads : pc[t] = "pc_call") => anyThreadCreated
  /\ Started # {} => anyThreadCreated

\* C13 witness: one created thread has ended and another is running its body.
C13_Witness ==
  \E c, d \in Workers : Terminated(c) /\ pc[d] = "body"

\* what the real pthread_create returned for child c: the thread was started
\* exactly when it returned 0
RealResult(c) == IF pc[c] = "failed" THEN EAGAIN ELSE 0

\* C14: pthread_create returns to its caller what the real implementation
\* returned for the handle it was given; and for a thread whose creation
\* failed no wrapper runs, no heap is leased, and no Local Cache is
\* constructed or torn down.
C14_CreateResult ==
  /\ \A t \in Threads :
       (creating[t][1] \in Workers /\ pc[t] # "pc_call") =>
         createResult[t] = RealResult(creating[t][1])
  /\ \A c \in Workers :
       pc[c] \in {"pending", "failed"} =>
         /\ log[c] = <<>>
         /\ returned[c] = {}
         /\ tidMap[c] = NoHeap
         /\ \A i \in Insts : constructedBy[i] # c

\* C14 witness: a creation has failed and its caller got the error code,
\* while another created thread holds a heap.
C14_Witness ==
  \E t \in Threads :
    /\ creating[t][1] \in Workers
    /\ pc[creating[t][1]] = "failed"
    /\ createResult[t] = EAGAIN
    /\ inUse # {}

\* created threads whose wrapper startMeUp is running
InWrapper == {c \in Workers : pc[c] \in {"smu_get", "smu_lease", "body",
                                         "er_release", "smu_ret", "pe_fwd"}}

\* C18: whenever the real creation is about to be invoked, and whenever the
\* wrapper of some created thread is running, the thread that made the first
\* creation call has already constructed its Local Cache.
C18_FirstCallerConstructed ==
  ((\E t \in Threads : pc[t] = "pc_call") \/ InWrapper # {}) =>
    /\ firstCaller \in Threads
    /\ Has(log[firstCaller], ConstructEv)

\* C18 witness: a created thread's wrapper is running and the first creating
\* thread has not allocated anything itself.
C18_Witness ==
  /\ InWrapper # {}
  /\ firstCaller \in Threads
  /\ ~Has(log[firstCaller], {"malloc", "exit"})

\* C19: no thread has called releaseHeap more often than it has called
\* findUnusedHeap (so a thread that never leased, such as main, releases
\* nothing).
C19_ReleaseWithinLease ==
  \A t \in Threads : Releases(t) <= Leases(t)

\* C20: when exitRoutine has flushed, the cache it flushed (its local heap)
\* is a constructed Local Cache of the calling thread that getCustomHeap has
\* handed to that thread, and its construction precedes the flush.
C20_ClearOnConstructed ==
  \A t \in Threads :
    pc[t] = "er_release" =>
      /\ heap[t] # NULL
      /\ constructedBy[heap[t]] = t
      /\ heap[t] \in returned[t]
      /\ First(log[t], ConstructEv) # 0
      /\ First(log[t], ConstructEv) < Last(log[t], {"clear"})

\* C20 witness: exitRoutine has run on a thread that had no Local Cache, and
\* constructed the cache it flushed.
C20_Witness ==
  \E t \in Threads :
    /\ pc[t] = "er_release"
    /\ Constructs(t) = 1
    /\ First(log[t], ConstructEv) = Last(log[t], {"clear"}) - 1

\* C15: keyed strategy: make_heap_key has run at most once whatever the
\* threads have done, and it has run (and pthread_once has completed) in
\* every state where some thread has looked up or stored a value under the
\* key.
C15_RegisteredOnce ==
  /\ keyCreations <= 1
  /\ (strategy = "keyed" /\ \E t \in Threads :
                              returned[t] # {} \/ specific[t] # NULL) =>
       /\ keyCreations = 1
       /\ key_once = "done"
       /\ keyState # "none"

\* C15 witness: keyed strategy, and the main thread and two created threads
\* have each called getCustomHeap().
C15_Witness ==
  /\ strategy = "keyed"
  /\ returned[Main] # {}
  /\ \E c, d \in Workers : c # d /\ returned[c] # {} /\ returned[d] # {}

\* heap identities that have ever been leased
EverLeased == {tidMap[t] : t \in Threads} \ {NoHeap}

\* Local Caches constructed in storage labelled for thread t
InstsOf(t) == {i \in Insts : (t * PerThread) < i /\ i <= (t + 1) * PerThread}

RECURSIVE SumCached(_)
SumCached(S) ==
  IF S = {} THEN 0
  ELSE LET i == CHOOSE x \in S : TRUE IN cached[i] + SumCached(S \ {i})

\* what the pool has handed out on behalf of thread t and not got back:
\* blocks the thread holds, blocks kept in its caches, storage of its caches
OutstandingOf(t) ==
  held[t] + SumCached(InstsOf(t)) + Cardinality(heapMem \cap InstsOf(t))

\* every created thread was started, has allocated and freed MaxOps times and
\* has ended
AllJoined ==
  \A c \in Workers : Terminated(c) /\ ops[c] = MaxOps /\ held[c] = 0

\* C11: when all NumWorkers threads were created, each made its
\* allocate/free cycles and all have ended, nothing of what the pool handed
\* out for them is outstanding, no heap is leased, and the heap identities
\* ever leased are no more than the most threads that were alive at once.
C11_PoolBackToInitial ==
  AllJoined =>
    /\ \A c \in Workers : OutstandingOf(c) = 0
    /\ inUse = {}
    /\ Cardinality(EverLeased) <= highWater

\* the events with which a thread's own code ends
EndEv == {"return", "forward", "cancel"}
AfterEnd(s) == SubSeq(s, First(s, EndEv) + 1, Len(s))

\* C16: keyed strategy: for a thread that ended, on whatever path, with a
\* Local Cache stored under the key, what follows its end is deleteThatHeap:
\* the flush, then the return of the storage, then the heap release, each
\* once, and all of it done when the thread is gone.
C16_DestructorRuns ==
  \A t \in Threads :
    (/\ strategy = "keyed"
     /\ Has(log[t], EndEv)
     /\ (specific[t] # NULL \/ dp[t] # NULL)) =>
      /\ IsPrefix(AfterEnd(log[t]), <<"d_clear", "d_free", "d_release">>)
      /\ Terminated(t) =>
           AfterEnd(log[t]) = <<"d_clear", "d_free", "d_release">>

\* C17: the pointer to the real pthread_exit (and to the real pthread_create)
\* only ever holds null or the one resolved address, and no thread has
\* called through it while it was still null.
C17_ResolvedBeforeCall ==
  /\ real_pthread_exit \in {"null", "libc"}
  /\ real_pthread_create \in {"null", "libc"}
  /\ \A t \in Threads : ~Has(log[t], {"forward_null"})

=============================================================================
